---- MODULE Spec2Model ----
(***************************************************************************)
(* Model of the MarkLogic gRPC document-ingestion service                  *)
(* (src/src/marklogic_server.py): MarkLogicServicer.__init__ and its       *)
(* backend connector, and InsertDocument with its two persistence paths,   *)
(* run by the worker threads of the server's thread pool.                  *)
(*                                                                         *)
(* A payload (request.json_data) is a sequence of JSON tokens; a URI is a  *)
(* triple <<prefix, number, suffix>> so that the generated form            *)
(* f"/documents/doc_{counter}_{hex}.json" keeps its counter visible; the   *)
(* texts of status_message are the source's, and a details text is the     *)
(* tuple of the pieces of its f-string.                                    *)
(***************************************************************************)
EXTENDS Integers, Sequences, FiniteSets, TLC

\* ------------------------------------------------------------------ bounds
\* Total number of InsertDocument calls dispatched in one behaviour.
MaxRequests == 2
\* Nesting depth at which the JSON decoder raises RecursionError
\* (the interpreter's recursion limit, scaled down).
RecursionLimit == 2

\* Worker threads of the pool that run handlers concurrently
\* (ThreadPoolExecutor(max_workers=10), two of them modelled).
Workers == {"w1", "w2"}

\* ------------------------------------------------------------------ inputs
Tokens == {"[", "]", "true"}

\* request.json_data: absent, a scalar, an array, a truncated array, and
\* arrays nested three deep.
Payloads ==
    {<<>>, <<"true">>, <<"[", "true", "]">>, <<"[", "true">>, <<"[", "[", "[">>}

\* request.document_uri: the proto3 default "" or a caller-supplied path.
NoUri == <<"", 0, "">>
SuppliedUris == {<<"/customers/", 1, ".json">>}

NoMetadata == [k \in {} |-> ""]
\* (collections, metadata) pairs a request carries.
Tags == {[collections |-> <<>>, metadata |-> NoMetadata],
         [collections |-> <<"c1", "c2">>, metadata |-> [k \in {"source"} |-> "test"]]}

\* uuid4().hex[:8]
HexSuffixes == {"0a1b2c3d", "deadbeef"}

Requests ==
    {[json_data |-> p, document_uri |-> u, collections |-> g.collections, metadata |-> g.metadata] :
        p \in Payloads, u \in SuppliedUris \cup {NoUri}, g \in Tags}

NoRequest == [json_data |-> <<>>, document_uri |-> NoUri, collections |-> <<>>, metadata |-> NoMetadata]

\* ------------------------------------------------------------- json.loads
JTrue == [kind |-> "true", items |-> <<>>]
JList(items) == [kind |-> "list", items |-> items]
NoJson == [kind |-> "none", items |-> <<>>]

ParseOk(v, e) == [status |-> "ok", value |-> v, end |-> e, msg |-> ""]
ParseErr(kind, msg) == [status |-> kind, value |-> NoJson, end |-> 0, msg |-> msg]

\* The decoder's scan_once on toks from position idx, inside `depth` arrays.
RECURSIVE scan_once(_, _, _)
scan_once(toks, idx, depth) ==
    IF idx > Len(toks) THEN ParseErr("JSONDecodeError", "Expecting value")
    ELSE IF toks[idx] = "true" THEN ParseOk(JTrue, idx + 1)
    ELSE IF toks[idx] = "]" THEN ParseErr("JSONDecodeError", "Expecting value")
    ELSE \* "[": an array
         IF depth + 1 > RecursionLimit
         THEN ParseErr("RecursionError", "maximum recursion depth exceeded while decoding a JSON array")
         ELSE IF idx + 1 <= Len(toks) /\ toks[idx + 1] = "]"
         THEN ParseOk(JList(<<>>), idx + 2)
         ELSE LET first == scan_once(toks, idx + 1, depth + 1)
              IN  IF first.status # "ok" THEN first
                  ELSE IF first.end <= Len(toks) /\ toks[first.end] = "]"
                  THEN ParseOk(JList(<<first.value>>), first.end + 1)
                  ELSE ParseErr("JSONDecodeError", "Expecting ',' delimiter")

json_loads(toks) ==
    LET r == scan_once(toks, 1, 0)
    IN  IF r.status # "ok" THEN r
        ELSE IF r.end <= Len(toks) THEN ParseErr("JSONDecodeError", "Extra data")
        ELSE r

\* json.dumps(parsed_json) for a list, str(parsed_json) for anything else.
RECURSIVE json_dumps(_)
json_dumps(v) ==
    IF v.kind = "true" THEN <<"true">>
    ELSE IF Len(v.items) = 0 THEN <<"[", "]">>
    ELSE <<"[">> \o json_dumps(v.items[1]) \o <<"]">>

py_str(v) == <<"True">>

json_content(parsed_json) ==
    IF parsed_json.kind = "list" THEN json_dumps(parsed_json) ELSE py_str(parsed_json)

\* ------------------------------------------------------------------- state
VARIABLES
    MARKLOGIC_AVAILABLE, \* the marklogic client library imported
    client_constructs,   \* int(MARKLOGIC_PORT) and Client(...) raise nothing
    backend_up,          \* the MarkLogic server answers
    phase,               \* "boot" before MarkLogicServicer() returns, then "serving"
    ml_client,           \* self.ml_client: "None" or "Client"
    simulation_mode,     \* self.simulation_mode
    document_store,      \* self.document_store: URI -> stored record
    document_counter,    \* self.document_counter
    pc,                  \* per worker: where its InsertDocument call stands
    request,             \* per worker: the request of the call
    parsed_json,         \* per worker: local parsed_json
    doc_uri,             \* per worker: local doc_uri
    loaded,              \* per worker: the counter value read by `+= 1`
    response,            \* per worker: the response of its latest call
    write_result,        \* per worker: what documents.write did in its latest call
    dispatched,          \* calls dispatched so far
    issued,              \* the N of every generated URI, in order of generation
    ml_calls,            \* calls of ml_client.documents.write so far
    ml_docs              \* documents the backend accepted

env == <<MARKLOGIC_AVAILABLE, client_constructs, backend_up>>
servicer == <<ml_client, simulation_mode, document_store, document_counter>>
locals == <<request, parsed_json, doc_uri, loaded>>
backend == <<ml_calls, ml_docs>>
vars == <<env, phase, servicer, pc, locals, response, write_result, dispatched, issued, backend>>

\* The process's surroundings: the client library is missing; it is there and
\* the client cannot be constructed; the client is constructed and the backend
\* is down; the backend is up.
Environments ==
    {<<FALSE, FALSE, FALSE>>, <<TRUE, FALSE, FALSE>>, <<TRUE, TRUE, FALSE>>, <<TRUE, TRUE, TRUE>>}

NoResponse == [status_code |-> 0, status_message |-> "", document_uri |-> NoUri, details |-> <<>>]

\* ----------------------------------------------------------------- startup
\* _test_connection: its body is `pass`; it raises nothing, whatever the backend.
test_connection_raises(client, up) == FALSE

\* _initialize_marklogic_client: the try body reaches its end, or the except
\* clause runs.  Gives <<ml_client, simulation_mode>>.
initialize_marklogic_client(constructs, up) ==
    IF constructs /\ ~test_connection_raises("Client", up)
    THEN <<"Client", FALSE>>
    ELSE <<"None", TRUE>>

Init ==
    /\ \E e \in Environments :
           /\ MARKLOGIC_AVAILABLE = e[1]
           /\ client_constructs = e[2]
           /\ backend_up = e[3]
    /\ phase = "boot"
    /\ ml_client = "None"
    /\ simulation_mode = TRUE
    /\ document_store = [u \in {} |-> NoRequest]
    /\ document_counter = 0
    /\ pc = [t \in Workers |-> "idle"]
    /\ request = [t \in Workers |-> NoRequest]
    /\ parsed_json = [t \in Workers |-> NoJson]
    /\ doc_uri = [t \in Workers |-> NoUri]
    /\ loaded = [t \in Workers |-> 0]
    /\ write_result = [t \in Workers |-> "none"]
    /\ response = [t \in Workers |-> NoResponse]
    /\ dispatched = 0
    /\ issued = <<>>
    /\ ml_calls = 0
    /\ ml_docs = {}

\* MarkLogicServicer.__init__, run once by serve() before the server starts.
MarkLogicServicer_init ==
    /\ phase = "boot"
    /\ phase' = "serving"
    /\ LET r == IF MARKLOGIC_AVAILABLE
                THEN initialize_marklogic_client(client_constructs, backend_up)
                ELSE <<"None", TRUE>>
       IN  /\ ml_client' = r[1]
           /\ simulation_mode' = r[2]
    /\ document_store' = [u \in {} |-> NoRequest]
    /\ document_counter' = 0
    /\ UNCHANGED <<env, pc, locals, response, write_result, dispatched, issued, backend>>

\* --------------------------------------------------------------- responses
\* Mutant: the empty payload reported as a server fault.
EmptyPayloadAsServerError ==
    [status_code |-> 500, status_message |-> "Error: JSON data is required",
     document_uri |-> NoUri, details |-> <<>>]

EmptyPayloadResponse ==
    [status_code |-> 400, status_message |-> "Error: JSON data is required",
     document_uri |-> NoUri, details |-> <<"The json_data field cannot be empty">>]

InvalidJsonResponse(msg) ==
    [status_code |-> 400, status_message |-> "Error: Invalid JSON format",
     document_uri |-> NoUri, details |-> <<"Invalid JSON format: ", msg>>]

\* Mutant: no outermost `except Exception`; the exception leaves
\* InsertDocument and no response is built.
UnhandledError(msg) == NoResponse

InternalErrorResponse(msg) ==
    [status_code |-> 500, status_message |-> "Error: Internal server error",
     document_uri |-> NoUri, details |-> <<"Unexpected error during document insertion: ", msg>>]

\* Mutant: the two counts of the details text exchanged.
MarkLogicSuccessCountsSwapped(uri, req) ==
    [status_code |-> 200, status_message |-> "Document inserted successfully into MarkLogic",
     document_uri |-> uri,
     details |-> <<"Document inserted with ", Cardinality(DOMAIN req.metadata), " collections and ",
                   Len(req.collections), " metadata entries">>]

MarkLogicSuccessResponse(uri, req) ==
    [status_code |-> 200, status_message |-> "Document inserted successfully into MarkLogic",
     document_uri |-> uri,
     details |-> <<"Document inserted with ", Len(req.collections), " collections and ",
                   Cardinality(DOMAIN req.metadata), " metadata entries">>]

ConnectionErrorResponse(uri, e) ==
    [status_code |-> 500, status_message |-> "MarkLogic database connection error",
     document_uri |-> NoUri, details |-> <<"MarkLogic connection error: ", e>>]

\* Mutant: the simulation response built without document_uri.
SimulationResponseWithoutUri(uri, req) ==
    [status_code |-> 200, status_message |-> "Document inserted successfully (simulation mode)",
     document_uri |-> NoUri,
     details |-> <<"Document size: ", Len(req.json_data), " bytes, Collections: ",
                   Len(req.collections), ", Mode: Simulation">>]

SimulationResponse(uri, req) ==
    [status_code |-> 200, status_message |-> "Document inserted successfully (simulation mode)",
     document_uri |-> uri,
     details |-> <<"Document size: ", Len(req.json_data), " bytes, Collections: ",
                   Len(req.collections), ", Mode: Simulation">>]

\* `return <response>`: the call ends, its locals go out of scope.
Return(t, resp) ==
    /\ response' = [response EXCEPT ![t] = resp]
    /\ pc' = [pc EXCEPT ![t] = "idle"]
    /\ request' = [request EXCEPT ![t] = NoRequest]
    /\ parsed_json' = [parsed_json EXCEPT ![t] = NoJson]
    /\ doc_uri' = [doc_uri EXCEPT ![t] = NoUri]
    /\ loaded' = [loaded EXCEPT ![t] = 0]

\* ---------------------------------------------------------- InsertDocument
\* The server hands a request to an idle worker thread, which enters InsertDocument.
Dispatch(t, r) ==
    /\ phase = "serving"
    /\ pc[t] = "idle"
    /\ dispatched < MaxRequests
    /\ dispatched' = dispatched + 1
    /\ pc' = [pc EXCEPT ![t] = "InsertDocument"]
    /\ request' = [request EXCEPT ![t] = r]
    /\ response' = [response EXCEPT ![t] = NoResponse]
    /\ write_result' = [write_result EXCEPT ![t] = "none"]
    /\ UNCHANGED <<env, phase, servicer, parsed_json, doc_uri, loaded, issued, backend>>

\* Mutant: the test of the mode inverted.
InsertPathInverted(mode) == IF mode THEN "marklogic" ELSE "simulation"

\* `if self.simulation_mode:` chooses the persistence path.
InsertPath(mode) == IF mode THEN "simulation" ELSE "marklogic"

\* InsertDocument up to the resolution of a supplied URI: validation, json.loads,
\* the outer `except Exception`, `doc_uri = request.document_uri`.
InsertDocument(t) ==
    /\ pc[t] = "InsertDocument"
    /\ LET req == request[t]
           p == json_loads(req.json_data)
       IN  IF Len(req.json_data) = 0
           THEN Return(t, EmptyPayloadResponse)
           ELSE IF p.status = "JSONDecodeError"
           THEN Return(t, InvalidJsonResponse(p.msg))
           ELSE IF p.status # "ok"
           THEN Return(t, InternalErrorResponse(p.msg))
           ELSE /\ parsed_json' = [parsed_json EXCEPT ![t] = p.value]
                /\ IF req.document_uri # NoUri
                   THEN /\ doc_uri' = [doc_uri EXCEPT ![t] = req.document_uri]
                        /\ pc' = [pc EXCEPT ![t] = InsertPath(simulation_mode)]
                   ELSE /\ pc' = [pc EXCEPT ![t] = "counter_load"]
                        /\ UNCHANGED doc_uri
                /\ UNCHANGED <<request, loaded, response>>
    /\ UNCHANGED <<env, phase, servicer, write_result, dispatched, issued, backend>>

\* `self.document_counter += 1` reads the attribute ...
counter_load(t) ==
    /\ pc[t] = "counter_load"
    /\ loaded' = [loaded EXCEPT ![t] = document_counter]
    /\ pc' = [pc EXCEPT ![t] = "counter_store"]
    /\ UNCHANGED <<env, phase, servicer, request, parsed_json, doc_uri, response,
                   write_result, dispatched, issued, backend>>

\* ... and writes the sum back, with no lock between the two.
counter_store(t) ==
    /\ pc[t] = "counter_store"
    /\ document_counter' = loaded[t] + 1
    /\ pc' = [pc EXCEPT ![t] = "format_uri"]
    /\ UNCHANGED <<env, phase, ml_client, simulation_mode, document_store, locals, response,
                   write_result, dispatched, issued, backend>>

\* f"/documents/doc_{self.document_counter}_{uuid4().hex[:8]}.json"
GeneratedUri(counter, hex) == <<"/documents/doc_", counter, hex>>

\* The f-string reads self.document_counter again; then the path is chosen.
format_uri(t) ==
    /\ pc[t] = "format_uri"
    /\ \E hex \in HexSuffixes :
           doc_uri' = [doc_uri EXCEPT ![t] = GeneratedUri(document_counter, hex)]
    /\ issued' = Append(issued, document_counter)
    /\ pc' = [pc EXCEPT ![t] = InsertPath(simulation_mode)]
    /\ UNCHANGED <<env, phase, servicer, request, parsed_json, loaded, response,
                   write_result, dispatched, backend>>

\* ------------------------------------------------- _insert_document_marklogic
\* What ml_client.documents.write may do: return, or raise.
WriteOutcomes == {"ok", "ConnectionError", "HTTPError", "ValueError"}

\* Mutant: the isinstance test made against Exception.
IsAnyException(e) == TRUE

\* Mutant: the isinstance test never true (the classification skipped).
IsNeverRequestsException(e) == FALSE

\* isinstance(e, (ConnectionError, HTTPError, RequestException)) of requests.exceptions
IsRequestsException(e) == e \in {"ConnectionError", "HTTPError", "RequestException", "Timeout"}

\* Document(uri=doc_uri, content=json_content) with document.collections set
\* when the request has collections; under `if request.metadata:` the body is
\* `pass`, so the document's metadata stays as constructed: none.
Document(uri, content, req) ==
    [uri |-> uri, content |-> content, collections |-> req.collections,
     metadata |-> NoMetadata]

\* Mutant: the fallback also switches the servicer to simulation mode.
fallback_switching_mode(t, e) ==
    /\ pc' = [pc EXCEPT ![t] = "simulation"]
    /\ UNCHANGED <<request, parsed_json, doc_uri, loaded, response>>
    /\ ml_client' = "None"
    /\ simulation_mode' = TRUE

\* "Fall back to simulation on any error": the except clause ends by calling
\* _insert_document_simulation, in the same call.
fallback_to_simulation(t, e) ==
    /\ pc' = [pc EXCEPT ![t] = "simulation"]
    /\ UNCHANGED <<request, parsed_json, doc_uri, loaded, response>>
    /\ UNCHANGED <<ml_client, simulation_mode>>

insert_document_marklogic(t) ==
    /\ pc[t] = "marklogic"
    /\ ml_calls' = ml_calls + 1
    /\ \E outcome \in WriteOutcomes :
        /\ outcome = "ok" => backend_up
        /\ write_result' = [write_result EXCEPT ![t] = outcome]
        /\ IF outcome = "ok"
           THEN /\ ml_docs' = ml_docs \cup
                       {Document(doc_uri[t], json_content(parsed_json[t]), request[t])}
                /\ Return(t, MarkLogicSuccessResponse(doc_uri[t], request[t]))
                /\ UNCHANGED <<ml_client, simulation_mode>>
           ELSE /\ ml_docs' = ml_docs
                /\ IF MARKLOGIC_AVAILABLE /\ IsRequestsException(outcome)
                   THEN /\ Return(t, ConnectionErrorResponse(doc_uri[t], outcome))
                        /\ UNCHANGED <<ml_client, simulation_mode>>
                   ELSE fallback_to_simulation(t, outcome)
    /\ UNCHANGED <<env, phase, document_store, document_counter, dispatched, issued>>

\* ------------------------------------------------ _insert_document_simulation
\* document_metadata (the insertion timestamp left out).
StoredRecord(uri, parsed, req) ==
    [uri |-> uri, data |-> parsed, collections |-> req.collections,
     metadata |-> req.metadata, size_bytes |-> Len(req.json_data)]

\* Mutant: an existing URI keeps its record (first write wins).
PutDocumentIfAbsent(store, uri, rec) ==
    [u \in DOMAIN store \cup {uri} |-> IF u \in DOMAIN store THEN store[u] ELSE rec]

\* Mutant: the assignment to the store left out.
PutDocumentDropped(store, uri, rec) == store

\* Mutant: the store rebound to a dict holding the new record alone.
PutDocumentAlone(store, uri, rec) == [u \in {uri} |-> rec]

\* self.document_store[doc_uri] = document_metadata: one item assignment on a
\* built-in dict, indivisible for the other threads.
PutDocument(store, uri, rec) ==
    [u \in DOMAIN store \cup {uri} |-> IF u = uri THEN rec ELSE store[u]]

insert_document_simulation(t) ==
    /\ pc[t] = "simulation"
    /\ document_store' = PutDocument(document_store, doc_uri[t],
                                     StoredRecord(doc_uri[t], parsed_json[t], request[t]))
    /\ Return(t, SimulationResponse(doc_uri[t], request[t]))
    /\ UNCHANGED <<env, phase, ml_client, simulation_mode, document_counter,
                   write_result, dispatched, issued, backend>>

\* -------------------------------------------------------------------- system
Next ==
    \/ MarkLogicServicer_init
    \/ \E t \in Workers, r \in Requests : Dispatch(t, r)
    \/ \E t \in Workers : InsertDocument(t)
    \/ \E t \in Workers : counter_load(t)
    \/ \E t \in Workers : counter_store(t)
    \/ \E t \in Workers : format_uri(t)
    \/ \E t \in Workers : insert_document_marklogic(t)
    \/ \E t \in Workers : insert_document_simulation(t)

Spec == Init /\ [][Next]_vars

\* ==================================================================== claims
\* The step ends worker t's call: InsertDocument returns its response.
Returns(t) == pc[t] # "idle" /\ pc'[t] = "idle"

\* The step is worker t's call of documents.write.
WriteStep(t) == pc[t] = "marklogic" /\ pc'[t] # "marklogic"

\* The errors that count as connectivity/transport errors: the exception
\* classes of the HTTP library under the backend client.
TransportErrors == {"ConnectionError", "HTTPError", "RequestException"}

SimulationMessage == "Document inserted successfully (simulation mode)"

\* The Fallback Store holds, under its own URI, what worker t is inserting.
StoredFor(t, store) ==
    /\ doc_uri[t] \in DOMAIN store
    /\ store[doc_uri[t]].uri = doc_uri[t]
    /\ store[doc_uri[t]].data = parsed_json[t]

\* C1: in Connected mode a backend write that fails with an error that is not
\* a transport error falls back: the call goes on to the Fallback Store write
\* (the store untouched until then), and that write stores the record under
\* the resolved URI and returns 200 with the simulation-mode message and
\* details, after which the store holds a record for that URI.
C1_FallbackOnOtherError ==
    [][\A t \in Workers :
        /\ (WriteStep(t) /\ write_result'[t] \notin {"ok"} \cup TransportErrors)
             => /\ pc'[t] = "simulation"
                /\ response'[t] = NoResponse
                /\ doc_uri'[t] = doc_uri[t]
                /\ document_store' = document_store
        /\ (~simulation_mode /\ pc[t] = "simulation" /\ pc'[t] # "simulation")
             => /\ pc'[t] = "idle"
                /\ response'[t].status_code = 200
                /\ response'[t].status_message = SimulationMessage
                /\ response'[t].details[5] = ", Mode: Simulation"
                /\ response'[t].document_uri = doc_uri[t]
                /\ StoredFor(t, document_store')]_vars

\* A Connected-mode call answered from the Fallback Store after a ValueError.
C1_Witness ==
    \E t \in Workers :
        /\ ~simulation_mode
        /\ pc[t] = "idle"
        /\ write_result[t] = "ValueError"
        /\ response[t].status_code = 200
        /\ response[t].status_message = SimulationMessage
        /\ response[t].document_uri \in DOMAIN document_store

\* C2: in Connected mode a backend write that fails with a transport error
\* ends the call with a 500 response reporting a backend connection error, and
\* no step of a call before its Fallback Store write changes the store.
C2_TransportErrorIs500 ==
    [][\A t \in Workers :
        /\ (WriteStep(t) /\ write_result'[t] \in TransportErrors)
             => /\ pc'[t] = "idle"
                /\ response'[t].status_code = 500
                /\ response'[t].status_message = "MarkLogic database connection error"
                /\ document_store' = document_store
        /\ (pc[t] \notin {"idle", "simulation"} /\ pc'[t] # pc[t])
             => document_store' = document_store]_vars

\* A call answered 500 after the write raised ConnectionError.
C2_Witness ==
    \E t \in Workers :
        /\ pc[t] = "idle"
        /\ write_result[t] = "ConnectionError"
        /\ response[t].status_code = 500
        /\ response[t].status_message = "MarkLogic database connection error"

\* C3: the counter values N of the generated URIs strictly increase in the
\* order the URIs are generated; in particular no two calls receive the same N.
C3_GeneratedNStrictlyIncreases ==
    \A i, j \in DOMAIN issued : i < j => issued[i] < issued[j]

\* A step of worker t's call.
CallStep(t) ==
    \/ InsertDocument(t)
    \/ counter_load(t) \/ counter_store(t) \/ format_uri(t)
    \/ insert_document_marklogic(t)
    \/ insert_document_simulation(t)

\* C4: every call that ends returns a response whose status_code is 200, 400
\* or 500 and whose status_message is not empty, and a call that has not ended
\* has built no response yet and always has a next step: no path leaves
\* InsertDocument without a response.
C4_EveryCallAnswered ==
    /\ [][\A t \in Workers :
            Returns(t) => /\ response'[t].status_code \in {200, 400, 500}
                          /\ response'[t].status_message # ""]_vars
    /\ [](\A t \in Workers :
            /\ pc[t] \in {"idle", "InsertDocument", "counter_load", "counter_store",
                          "format_uri", "marklogic", "simulation"}
            /\ pc[t] # "idle" => response[t] = NoResponse /\ ENABLED CallStep(t))

\* A call ended by the outermost handler.
C4_Witness ==
    \E t \in Workers :
        /\ pc[t] = "idle"
        /\ response[t].status_code = 500
        /\ response[t].status_message = "Error: Internal server error"

\* C5 as stated: every response produced after the URI was resolved echoes
\* the resolved URI (the supplied one when the request supplies one), and a
\* response produced before carries none.
C5_EveryResolvedUriEchoed ==
    [][\A t \in Workers :
        Returns(t) =>
            /\ response'[t].document_uri = doc_uri[t]
            /\ (doc_uri[t] # NoUri /\ request[t].document_uri # NoUri)
                 => response'[t].document_uri = request[t].document_uri]_vars

\* C5 amended: every 200 response echoes the resolved URI, which is the
\* supplied one when the request supplies one; every 400 and 500 response,
\* the backend connection error among them, carries no URI.
C5_SuccessEchoesUri ==
    [][\A t \in Workers :
        Returns(t) =>
            /\ response'[t].status_code = 200
                 => /\ doc_uri[t] # NoUri
                    /\ response'[t].document_uri = doc_uri[t]
                    /\ request[t].document_uri # NoUri
                         => response'[t].document_uri = request[t].document_uri
            /\ response'[t].status_code # 200
                 => response'[t].document_uri = NoUri]_vars

\* A 200 response with a supplied URI beside a connection-error response.
C5_Witness ==
    \E t, u \in Workers :
        /\ pc[t] = "idle" /\ pc[u] = "idle"
        /\ response[t].status_code = 200
        /\ response[t].document_uri \in SuppliedUris
        /\ response[u].status_code = 500
        /\ write_result[u] = "ConnectionError"

\* C6: once the servicer is initialized, no step changes the mode or the
\* backend handle.
C6_ModeFixedAfterStartup ==
    [][phase = "serving" =>
          /\ simulation_mode' = simulation_mode
          /\ ml_client' = ml_client]_vars

\* Connected mode after a write failed and was degraded to the Fallback Store.
C6_Witness ==
    \E t \in Workers :
        /\ phase = "serving"
        /\ ~simulation_mode
        /\ pc[t] = "idle"
        /\ write_result[t] = "ValueError"
        /\ response[t].status_message = SimulationMessage

\* C7: after startup the mode is Connected, with a backend handle, exactly
\* when the client was constructed and the backend answered the connectivity
\* check; otherwise the handle is null and the mode is Simulated.
C7_ConnectedOnlyIfBackendAnswers ==
    phase = "serving" =>
        IF MARKLOGIC_AVAILABLE /\ client_constructs /\ backend_up
        THEN ~simulation_mode /\ ml_client = "Client"
        ELSE simulation_mode /\ ml_client = "None"

\* C8: a call with an empty payload ends at once with a 400 response that
\* carries details about the payload and no URI, and changes neither the
\* counter, nor the Fallback Store, nor anything at the backend.
C8_EmptyPayloadRejected ==
    [][\A t \in Workers :
        (pc[t] = "InsertDocument" /\ pc'[t] # pc[t] /\ Len(request[t].json_data) = 0)
          => /\ pc'[t] = "idle"
             /\ response'[t].status_code = 400
             /\ response'[t].details = <<"The json_data field cannot be empty">>
             /\ response'[t].document_uri = NoUri
             /\ UNCHANGED <<document_counter, issued, document_store, ml_calls, ml_docs>>]_vars

\* An empty payload rejected in Connected mode.
C8_Witness ==
    \E t \in Workers :
        /\ ~simulation_mode
        /\ pc[t] = "idle"
        /\ response[t].status_code = 400
        /\ response[t].status_message = "Error: JSON data is required"

\* The JSON texts over the tokens, by the grammar alone.
RECURSIVE IsJsonValue(_)
IsJsonValue(toks) ==
    \/ toks = <<"true">>
    \/ /\ Len(toks) >= 2
       /\ toks[1] = "[" /\ toks[Len(toks)] = "]"
       /\ Len(toks) = 2 \/ IsJsonValue(SubSeq(toks, 2, Len(toks) - 1))

\* C9: a call whose payload is not empty and not valid JSON ends at once with
\* a 400 response whose status_message reports the invalid format and whose
\* details carry the parser's message, and changes neither the counter, nor
\* the Fallback Store, nor anything at the backend.
C9_MalformedPayloadRejected ==
    [][\A t \in Workers :
        (/\ pc[t] = "InsertDocument" /\ pc'[t] # pc[t]
         /\ Len(request[t].json_data) > 0
         /\ ~IsJsonValue(request[t].json_data))
          => /\ pc'[t] = "idle"
             /\ response'[t].status_code = 400
             /\ response'[t].status_message = "Error: Invalid JSON format"
             /\ Len(response'[t].details) = 2
             /\ UNCHANGED <<document_counter, issued, document_store, ml_calls, ml_docs>>]_vars

\* C10: in Simulated mode a call that passed validation never reaches the
\* backend; it ends only by the Fallback Store write, which stores the record
\* under the resolved URI and returns 200 with that URI.
C10_SimulatedAlwaysSucceeds ==
    /\ [](simulation_mode => \A t \in Workers : pc[t] # "marklogic")
    /\ [][\A t \in Workers :
            (simulation_mode /\ Returns(t) /\ pc[t] # "InsertDocument")
              => /\ pc[t] = "simulation"
                 /\ response'[t].status_code = 200
                 /\ response'[t].document_uri = doc_uri[t]
                 /\ doc_uri[t] # NoUri
                 /\ StoredFor(t, document_store')
                 /\ document_store'[doc_uri[t]].collections = request[t].collections]_vars

\* A Simulated-mode call with a generated URI answered 200 from the store.
C10_Witness ==
    \E t \in Workers :
        /\ simulation_mode
        /\ pc[t] = "idle"
        /\ response[t].status_code = 200
        /\ response[t].document_uri[1] = "/documents/doc_"
        /\ response[t].document_uri \in DOMAIN document_store

\* C11: in Simulated mode an insertion under a URI the Fallback Store already
\* holds returns 200, leaves the set of stored URIs as it was (the store does
\* not grow) and leaves under that URI the record of this, later, call.
C11_LastWriteWins ==
    [][\A t \in Workers :
        (/\ simulation_mode
         /\ pc[t] = "simulation" /\ pc'[t] # "simulation"
         /\ doc_uri[t] \in DOMAIN document_store)
          => /\ pc'[t] = "idle"
             /\ response'[t].status_code = 200
             /\ DOMAIN document_store' = DOMAIN document_store
             /\ document_store'[doc_uri[t]] =
                    [uri |-> doc_uri[t], data |-> parsed_json[t],
                     collections |-> request[t].collections,
                     metadata |-> request[t].metadata,
                     size_bytes |-> Len(request[t].json_data)]]_vars

\* Two Simulated-mode calls under one URI with payloads of different sizes,
\* both answered 200, and one record in the store.
C11_Witness ==
    \E t, u \in Workers :
        /\ t # u
        /\ simulation_mode
        /\ pc[t] = "idle" /\ pc[u] = "idle"
        /\ response[t].status_code = 200 /\ response[u].status_code = 200
        /\ response[t].document_uri = response[u].document_uri
        /\ response[t].details[2] # response[u].details[2]
        /\ DOMAIN document_store = {response[t].document_uri}
        /\ document_store[response[t].document_uri].size_bytes = response[u].details[2]

\* C12: the document a Connected-mode call hands to the backend write, seen
\* at the backend when the write is accepted, carries the resolved URI, the
\* serialized parsed value, the request's collections and the request's
\* metadata.
C12_DocumentCarriesRequest ==
    [][\A t \in Workers :
        (WriteStep(t) /\ write_result'[t] = "ok")
          => \E d \in ml_docs' :
                /\ d.uri = doc_uri[t]
                /\ d.content = json_content(parsed_json[t])
                /\ d.collections = request[t].collections
                /\ d.metadata = request[t].metadata]_vars

\* C13: in Connected mode a backend write that succeeds ends the call with a
\* 200 response that carries the resolved URI and details giving the number
\* of the request's collections and of its metadata entries, and leaves the
\* Fallback Store unchanged.
C13_BackendSuccessIs200 ==
    [][\A t \in Workers :
        (WriteStep(t) /\ write_result'[t] = "ok")
          => /\ ~simulation_mode
             /\ pc'[t] = "idle"
             /\ response'[t].status_code = 200
             /\ response'[t].document_uri = doc_uri[t]
             /\ doc_uri[t] # NoUri
             /\ response'[t].details[2] = Len(request[t].collections)
             /\ response'[t].details[3] = " collections and "
             /\ response'[t].details[4] = Cardinality(DOMAIN request[t].metadata)
             /\ response'[t].details[5] = " metadata entries"
             /\ document_store' = document_store]_vars

\* A backend write accepted for a request with two collections and one
\* metadata entry, answered 200.
C13_Witness ==
    \E t \in Workers :
        /\ ~simulation_mode
        /\ pc[t] = "idle"
        /\ write_result[t] = "ok"
        /\ response[t].status_code = 200
        /\ response[t].status_message = "Document inserted successfully into MarkLogic"
        /\ response[t].details[2] = 2
        /\ response[t].details[4] = 1

\* C14: whenever no call is running, the allocator counter equals the number
\* of calls so far that passed validation without a supplied URI (each of
\* them generated one URI): no increment is lost.
C14_CounterCountsRequests ==
    (phase = "serving" /\ \A t \in Workers : pc[t] = "idle")
        => document_counter = Len(issued)

\* C15: every call that returns 200 with URI U has stored a document: either
\* its backend write for U was accepted during the call, or the Fallback
\* Store holds a record keyed U when it returns; and no step removes a key
\* from the Fallback Store.
C15_SuccessMeansStored ==
    [][/\ \A t \in Workers :
            (Returns(t) /\ response'[t].status_code = 200)
              => \/ /\ write_result'[t] = "ok"
                    /\ \E d \in ml_docs' : d.uri = response'[t].document_uri
                 \/ /\ response'[t].document_uri \in DOMAIN document_store'
                    /\ document_store'[response'[t].document_uri].uri
                           = response'[t].document_uri
       /\ DOMAIN document_store \subseteq DOMAIN document_store']_vars

\* One 200 answered by the backend and one by the Fallback Store, each with
\* its document where it belongs.
C15_Witness ==
    \E t, u \in Workers :
        /\ pc[t] = "idle" /\ pc[u] = "idle"
        /\ response[t].status_code = 200 /\ write_result[t] = "ok"
        /\ response[t].document_uri \notin DOMAIN document_store
        /\ \E d \in ml_docs : d.uri = response[t].document_uri
        /\ response[u].status_code = 200 /\ write_result[u] = "ValueError"
        /\ response[u].document_uri \in DOMAIN document_store

\* C16: a Fallback Store insertion puts the record of its own request (data,
\* collections, metadata) under its own URI and leaves the record under
\* every other URI as it was, whatever the other workers are doing; no other
\* step changes the store; so two calls answered from the store under
\* different URIs both have their URI in it.
C16_NoLostStoreUpdate ==
    /\ [][\A t \in Workers :
            /\ (pc[t] = "simulation" /\ pc'[t] # "simulation")
                 => /\ response'[t].status_code = 200
                    /\ doc_uri[t] \in DOMAIN document_store'
                    /\ document_store'[doc_uri[t]].data = parsed_json[t]
                    /\ document_store'[doc_uri[t]].collections = request[t].collections
                    /\ document_store'[doc_uri[t]].metadata = request[t].metadata
                    /\ \A k \in DOMAIN document_store \ {doc_uri[t]} :
                          /\ k \in DOMAIN document_store'
                          /\ document_store'[k] = document_store[k]
            /\ (pc[t] # "simulation" /\ pc'[t] # pc[t])
                 => document_store' = document_store]_vars
    /\ [](\A t, u \in Workers :
            (/\ pc[t] = "idle" /\ pc[u] = "idle"
             /\ response[t].status_message = SimulationMessage
             /\ response[u].status_message = SimulationMessage)
              => {response[t].document_uri, response[u].document_uri}
                     \subseteq DOMAIN document_store)

\* Two calls that overlapped (they generated URIs with the same N and
\* different suffixes), both answered 200 from the store, each URI holding a
\* record of its own request's size.
C16_Witness ==
    \E t, u \in Workers :
        /\ pc[t] = "idle" /\ pc[u] = "idle"
        /\ response[t].status_message = SimulationMessage
        /\ response[u].status_message = SimulationMessage
        /\ response[t].document_uri # response[u].document_uri
        /\ response[t].document_uri[1] = "/documents/doc_"
        /\ response[t].document_uri[2] = response[u].document_uri[2]
        /\ response[t].details[2] # response[u].details[2]
        /\ document_store[response[t].document_uri].size_bytes = response[t].details[2]
        /\ document_store[response[u].document_uri].size_bytes = response[u].details[2]

====
